---- MODULE Spec2Model ----
(***************************************************************************)
(* Model of src/resources/invoices.rs of stripe-rs: the request parameter  *)
(* structs, the response entities and the six operations of Invoice and    *)
(* InvoiceItem, each a single call to the Client collaborator.             *)
(*                                                                         *)
(* Paths and query strings are sequences of one-character strings, so that *)
(* two paths are equal exactly when they are equal character by character. *)
(* An Option<T> is the record [some |-> FALSE] (None) or                   *)
(* [some |-> TRUE, v |-> x] (Some(x)).  A Result<T, Error> is the record   *)
(* [ok |-> TRUE, value |-> x] or [ok |-> FALSE, kind |-> k, msg |-> m].    *)
(***************************************************************************)
EXTENDS Integers, Sequences, FiniteSets, Bags, TLC

VARIABLES
    pc,        \* pc[c]: "idle", "inflight" (inside the Client call) or "done"
    op,        \* op[c]: the operation caller c invoked
    arg,       \* arg[c]: its arguments, [id |-> Option, params |-> Option]
    encoded,   \* encoded[c]: what qs::to_string returned to Invoice::list
    request,   \* request[c]: the call made on the Client, Option
    response,  \* response[c]: what the transport gave the Client, Option
    reply,     \* reply[c]: what the Client returned to the call, Option
    result,    \* result[c]: what the operation returned to its caller, Option
    calls,     \* calls[c]: how many calls the invocation made on the Client
    received   \* the bag of the requests the Client was handed

vars ==
    <<pc, op, arg, encoded, request, response, reply, result, calls, received>>

----------------------------------------------------------------------------
(* Bounds of the model.                                                    *)

\* An invoice id is the concatenation of at most MaxIdParts of the IdParts.
MaxIdParts == 2
\* Invoice::list is tried with every limit in 0..MaxLimit.
MaxLimit == 12
\* A response body lacks at most MaxAbsent of the keys of its entity.
MaxAbsent == 2

----------------------------------------------------------------------------
(* Option, Result.                                                         *)

None == [some |-> FALSE]
Some(x) == [some |-> TRUE, v |-> x]

Ok(x) == [ok |-> TRUE, value |-> x]
Err(k, m) == [ok |-> FALSE, kind |-> k, msg |-> m]

----------------------------------------------------------------------------
(* Strings of the source, character by character.                          *)

InvoicesPath == <<"/", "i", "n", "v", "o", "i", "c", "e", "s">>
InvoiceItemsPath == <<"/", "i", "n", "v", "o", "i", "c", "e", "i", "t", "e", "m", "s">>
Slash == <<"/">>
QuestionMark == <<"?">>
PaySuffix == <<"/", "p", "a", "y">>

\* The parts invoice ids are built from: a well-formed id, and the characters
\* that matter in a path ("/pay", "?"); ids are not validated (line 150).
In123 == <<"i", "n", "_", "1", "2", "3">>
IdParts == {In123, PaySuffix, QuestionMark}

RECURSIVE Concat(_)
Concat(parts) ==
    IF parts = <<>> THEN <<>> ELSE Head(parts) \o Concat(Tail(parts))

SeqsUpTo(S, n) == UNION {[1..k -> S] : k \in 0..n}

\* Every invoice_id: &str the operations are tried with ("" included).
Ids == {Concat(ps) : ps \in SeqsUpTo(IdParts, MaxIdParts)}

\* The ids the concurrent specification draws from: those without "?".
SomeIds == {Concat(ps) : ps \in SeqsUpTo(IdParts \ {QuestionMark}, MaxIdParts)}

----------------------------------------------------------------------------
(* InvoiceParams, InvoiceItemParams, InvoiceListParams (lines 10-49,       *)
(* 131-137): the fields in declaration order.  A params value maps every   *)
(* field to an Option.  The scalar values are opaque to this file, which   *)
(* hands them to the serializer unchanged; they are written as strings.    *)

InvoiceParamsFields ==
    <<"application_fee", "customer", "description", "statement_descriptor",
      "subscription", "tax_percent", "closed", "forgiven">>

InvoiceItemParamsFields ==
    <<"amount", "currency", "customer", "description", "discountable",
      "invoice", "metadata", "subscription">>

InvoiceListParamsFields == <<"limit", "customer">>

Range(s) == {s[i] : i \in DOMAIN s}

\* A value a caller may set a field to.
SampleValue(field) ==
    CASE field = "application_fee" -> "500"
      [] field = "customer" -> "cus_123"
      [] field = "description" -> "text"
      [] field = "statement_descriptor" -> "ACME"
      [] field = "subscription" -> "sub_1"
      [] field = "tax_percent" -> "8.5"
      [] field = "closed" -> "true"
      [] field = "forgiven" -> "false"
      [] field = "amount" -> "-250"
      [] field = "currency" -> "usd"
      [] field = "discountable" -> "true"
      [] field = "invoice" -> "in_123"
      [] field = "metadata" -> "true"
      [] OTHER -> "x"

\* The params value of `fields` with exactly the fields of `set` set.
ParamsWith(fields, set) ==
    [f \in Range(fields) |-> IF f \in set THEN Some(SampleValue(f)) ELSE None]

\* #[derive(Default)]: every field None.
DefaultParams(fields) == ParamsWith(fields, {})

\* Every InvoiceParams / InvoiceItemParams: each subset of the fields set.
AllInvoiceParams ==
    {ParamsWith(InvoiceParamsFields, s) : s \in SUBSET Range(InvoiceParamsFields)}
AllInvoiceItemParams ==
    {ParamsWith(InvoiceItemParamsFields, s) :
        s \in SUBSET Range(InvoiceItemParamsFields)}

\* The few params values the concurrent specification draws from.
SomeInvoiceParams ==
    {DefaultParams(InvoiceParamsFields),
     ParamsWith(InvoiceParamsFields, {"customer"}),
     ParamsWith(InvoiceParamsFields, {"customer", "closed", "tax_percent"})}
SomeInvoiceItemParams ==
    {DefaultParams(InvoiceItemParamsFields),
     ParamsWith(InvoiceItemParamsFields, {"customer", "amount", "currency"})}

\* customer: Option<&str> of InvoiceListParams, character by character: the
\* id of the spec's example, and one with characters a query string reserves.
ListCustomers == {<<"c", "u", "s", "_", "1", "2", "3">>, <<"a", "&", "b", "=", "c", " ", "d">>}

ListParams(limit, customer) == [limit |-> limit, customer |-> customer]

AllListParams ==
    {ListParams(l, c) :
        l \in {None} \cup {Some(n) : n \in 0..MaxLimit},
        c \in {None} \cup {Some(s) : s \in ListCustomers}}
SomeListParams ==
    {ListParams(None, None), ListParams(Some(10), Some(<<"c", "u", "s", "_", "1", "2", "3">>))}

----------------------------------------------------------------------------
(* #[derive(Serialize)] with #[serde(skip_serializing_if =                 *)
(* "Option::is_none")] on every field: what the params hand the            *)
(* serializer, a sequence of [key, value] pairs in declaration order.      *)

\* A field without skip_serializing_if: None goes out as null.
SerializeFieldNoSkip(key, opt) ==
    IF opt.some THEN <<[key |-> key, value |-> opt.v]>>
    ELSE <<[key |-> key, value |-> "null"]>>

SerializeField(key, opt) ==
    IF opt.some THEN <<[key |-> key, value |-> opt.v]>> ELSE <<>>

RECURSIVE SerializeFrom(_, _, _)
SerializeFrom(fields, params, i) ==
    IF i > Len(fields) THEN <<>>
    ELSE SerializeField(fields[i], params[fields[i]])
             \o SerializeFrom(fields, params, i + 1)

Serialize(fields, params) == SerializeFrom(fields, params, 1)

----------------------------------------------------------------------------
(* qs::to_string(&params) of Invoice::list (line 182): serde_qs writes the *)
(* serialized pairs as key=value joined by "&", integers in decimal,       *)
(* strings percent-encoded.                                                *)

Digits == <<"0", "1", "2", "3", "4", "5", "6", "7", "8", "9">>

RECURSIVE Decimal(_)
Decimal(n) ==
    IF n < 10 THEN <<Digits[n + 1]>>
    ELSE Decimal(n \div 10) \o <<Digits[(n % 10) + 1]>>

\* serde_qs leaves ASCII letters, digits and * - . _ as they are, writes a
\* space as "+" and every other byte as %XX.
PercentEncodeChar(ch) ==
    CASE ch = " " -> <<"+">>
      [] ch = "&" -> <<"%", "2", "6">>
      [] ch = "=" -> <<"%", "3", "D">>
      [] ch = "/" -> <<"%", "2", "F">>
      [] ch = "?" -> <<"%", "3", "F">>
      [] OTHER -> <<ch>>

RECURSIVE PercentEncode(_)
PercentEncode(s) ==
    IF s = <<>> THEN <<>>
    ELSE PercentEncodeChar(Head(s)) \o PercentEncode(Tail(s))

KeyChars(key) ==
    CASE key = "limit" -> <<"l", "i", "m", "i", "t">>
      [] key = "customer" -> <<"c", "u", "s", "t", "o", "m", "e", "r">>

\* limit: Option<u64> is written in decimal, customer: Option<&str> encoded.
QsPair(pair) ==
    KeyChars(pair.key) \o <<"=">> \o
        (IF pair.key = "limit" THEN Decimal(pair.value)
         ELSE PercentEncode(pair.value))

RECURSIVE QsJoin(_)
QsJoin(pairs) ==
    IF pairs = <<>> THEN <<>>
    ELSE IF Len(pairs) = 1 THEN QsPair(pairs[1])
    ELSE QsPair(pairs[1]) \o <<"&">> \o QsJoin(Tail(pairs))

\* A serializer that also writes the fields that are None, with no value.
QsToStringNoSkip(params) ==
    QsJoin([i \in 1..2 |->
        LET k == InvoiceListParamsFields[i] IN
        IF params[k].some THEN [key |-> k, value |-> params[k].v]
        ELSE [key |-> k, value |-> IF k = "limit" THEN 0 ELSE <<>>]])

QsToString(params) == QsJoin(Serialize(InvoiceListParamsFields, params))

\* qs::to_string returns Result<String, qs::Error>; `fails` is the outcome
\* of the encoder, which this file does not decide.
QsResult(params, fails) ==
    IF fails THEN Err("Qs", "unsupported value") ELSE Ok(QsToString(params))

\* The `?` of line 182: From<qs::Error> for Error.
FromQsError(e) == Err("Encode", e.msg)

----------------------------------------------------------------------------
(* The call each operation makes on the Client (lines 143-192):            *)
(* [fn, path, body], body the serialized params of post, None otherwise.   *)

Call(fn, path, body) == [fn |-> fn, path |-> path, body |-> body]

\* Invoice::create, line 144.
CreateCall(params) ==
    Call("post", InvoicesPath, Some(Serialize(InvoiceParamsFields, params)))

\* Invoice::retrieve, line 151: format!("/invoices/{}", invoice_id).
RetrieveCall(id) == Call("get", InvoicesPath \o Slash \o id, None)

\* pay written with post and default params instead of post_empty.
PayCallWithPost(id) ==
    Call("post", InvoicesPath \o Slash \o id \o PaySuffix,
         Some(Serialize(InvoiceParamsFields, DefaultParams(InvoiceParamsFields))))

\* Invoice::pay, line 168: format!("/invoices/{}/pay", invoice_id).
PayCall(id) == Call("post_empty", InvoicesPath \o Slash \o id \o PaySuffix, None)

\* update posting to the collection path, the id dropped.
UpdateCallNoId(id, params) ==
    Call("post", InvoicesPath, Some(Serialize(InvoiceParamsFields, params)))

\* Invoice::update, line 175.
UpdateCall(id, params) ==
    Call("post", InvoicesPath \o Slash \o id,
         Some(Serialize(InvoiceParamsFields, params)))

\* Invoice::list called although the encoding failed, with an empty query.
ListCallAlways(enc) ==
    Some(Call("get", InvoicesPath \o QuestionMark \o (IF enc.ok THEN enc.value ELSE <<>>),
              None))

\* Invoice::list, line 182: the `?` returns before client.get is called.
ListCall(enc) ==
    IF enc.ok THEN Some(Call("get", InvoicesPath \o QuestionMark \o enc.value, None))
    ELSE None

\* InvoiceItem::create, line 191.
ItemCreateCall(params) ==
    Call("post", InvoiceItemsPath, Some(Serialize(InvoiceItemParamsFields, params)))

\* The Client collaborator: the HTTP request of a call.  get sends GET with
\* no body, post_empty sends POST with an empty body, post sends POST with
\* the serialized params as a JSON object.
ClientRequest(call) ==
    [fn |-> call.fn,
     method |-> IF call.fn = "get" THEN "GET" ELSE "POST",
     path |-> call.path,
     body |-> IF call.body.some THEN [kind |-> "json", members |-> call.body.v]
              ELSE [kind |-> "empty", members |-> <<>>]]

----------------------------------------------------------------------------
(* The response entities (lines 72-129) and #[derive(Deserialize)].        *)
(* A field is [name, key, kind, ty]: the struct field, the key it is read  *)
(* from (#[serde(rename)]), "required", "option" (Option<T>) or "default"  *)
(* (#[serde(default)]), and "scalar" or "lines" (List<InvoiceItem>).       *)
(* A response body maps the keys it carries to their values; the value of  *)
(* key k is written "v_k".                                                 *)

F(name, key, kind, ty) == [name |-> name, key |-> key, kind |-> kind, ty |-> ty]

\* struct InvoiceItem, lines 73-91.
InvoiceItemFields ==
    <<
      F("id", "id", "required", "scalar"),
      F("amount", "amount", "required", "scalar"),
      F("currency", "currency", "required", "scalar"),
      F("description", "description", "option", "scalar"),
      F("discountable", "discountable", "required", "scalar"),
      F("livemode", "livemode", "required", "scalar"),
      F("metadata", "metadata", "required", "scalar"),
      F("period", "period", "required", "scalar"),
      F("plan", "plan", "option", "scalar"),
      F("proration", "proration", "required", "scalar"),
      F("quantity", "quantity", "option", "scalar"),
      F("subscription", "subscription", "option", "scalar"),
      F("subscription_item", "subscription_item", "option", "scalar"),
      F("item_type", "type", "default", "scalar")
    >>

\* struct Invoice, lines 97-129.
InvoiceFields ==
    <<
      F("id", "id", "required", "scalar"),
      F("amount_due", "amount_due", "required", "scalar"),
      F("application_fee", "application_fee", "option", "scalar"),
      F("attempt_count", "attempt_count", "required", "scalar"),
      F("attempted", "attempted", "required", "scalar"),
      F("charge", "charge", "option", "scalar"),
      F("closed", "closed", "required", "scalar"),
      F("currency", "currency", "required", "scalar"),
      F("customer", "customer", "required", "scalar"),
      F("date", "date", "required", "scalar"),
      F("description", "description", "option", "scalar"),
      F("discount", "discount", "option", "scalar"),
      F("ending_balance", "ending_balance", "option", "scalar"),
      F("forgiven", "forgiven", "required", "scalar"),
      F("lines", "lines", "required", "lines"),
      F("livemode", "livemode", "required", "scalar"),
      F("metadata", "metadata", "required", "scalar"),
      F("next_payment_attempt", "next_payment_attempt", "option", "scalar"),
      F("paid", "paid", "required", "scalar"),
      F("period_end", "period_end", "required", "scalar"),
      F("period_start", "period_start", "required", "scalar"),
      F("receipt_number", "receipt_number", "option", "scalar"),
      F("starting_balance", "starting_balance", "required", "scalar"),
      F("statment_descriptor", "statment_descriptor", "option", "scalar"),
      F("subscription", "subscription", "option", "scalar"),
      F("subscription_proration_date", "subscription_proration_date", "option", "scalar"),
      F("subtotal", "subtotal", "required", "scalar"),
      F("tax", "tax", "option", "scalar"),
      F("tax_percent", "tax_percent", "option", "scalar"),
      F("total", "total", "required", "scalar"),
      F("webhooks_delivered_at", "webhooks_delivered_at", "option", "scalar")
    >>

\* The attributes of the invoice object of the API: the keys a well-formed
\* Invoice response carries.  The statement descriptor is spelled
\* statement_descriptor, as in InvoiceParams (line 19).
InvoiceObjectKeys ==
    {"id", "amount_due", "application_fee", "attempt_count",
     "attempted", "charge", "closed", "currency",
     "customer", "date", "description", "discount",
     "ending_balance", "forgiven", "lines", "livemode",
     "metadata", "next_payment_attempt", "paid", "period_end",
     "period_start", "receipt_number", "starting_balance", "statement_descriptor",
     "subscription", "subscription_proration_date", "subtotal", "tax",
     "tax_percent", "total", "webhooks_delivered_at"}

\* The attributes of the invoice line item object.
InvoiceItemObjectKeys ==
    {"id", "amount", "currency", "description",
     "discountable", "livemode", "metadata", "period",
     "plan", "proration", "quantity", "subscription",
     "subscription_item", "type"}

\* The struct field meant for an attribute of the object.
FieldOf(key) ==
    CASE key = "statement_descriptor" -> "statment_descriptor"
      [] key = "type" -> "item_type"
      [] OTHER -> key

\* String::default(), what #[serde(default)] gives item_type.
DefaultString == ""

FieldNames(fields) == {fields[i].name : i \in DOMAIN fields}

RECURSIVE DecodeStruct(_, _)
RECURSIVE DecodeList(_, _)

\* The value of a key: a scalar as it is, lines as a List<InvoiceItem>.
DecodeValue(ty, v) ==
    IF ty = "lines" THEN DecodeList(InvoiceItemFields, v) ELSE Ok(v)

\* item_type without #[serde(default)]: a missing "type" fails like any
\* other missing field.
DecodeMissingNoDefault(f) ==
    IF f.kind = "option" THEN Ok(None) ELSE Err("Decode", f.key)

\* A field whose key the response omits: None for Option<T>, the default
\* under #[serde(default)], and "missing field" otherwise.
DecodeMissing(f) ==
    CASE f.kind = "option" -> Ok(None)
      [] f.kind = "default" -> Ok(DefaultString)
      [] OTHER -> Err("Decode", f.key)

DecodeField(f, resp) ==
    IF f.key \in DOMAIN resp
    THEN LET r == DecodeValue(f.ty, resp[f.key]) IN
         IF ~r.ok THEN r
         ELSE IF f.kind = "option" THEN Ok(Some(r.value)) ELSE r
    ELSE DecodeMissing(f)

\* Keys that are no field of the struct are ignored; the first field that
\* fails, in declaration order, is the error.
DecodeStruct(fields, resp) ==
    LET rs == [i \in DOMAIN fields |-> DecodeField(fields[i], resp)]
        bad == {i \in DOMAIN fields : ~rs[i].ok}
    IN  IF bad # {} THEN rs[CHOOSE i \in bad : \A j \in bad : i <= j]
        ELSE Ok([n \in FieldNames(fields) |->
                    rs[CHOOSE i \in DOMAIN fields : fields[i].name = n].value])

\* List<T> of params.rs: the items of "data", each decoded as T.
DecodeList(fields, resp) ==
    LET rs == [i \in DOMAIN resp.data |-> DecodeStruct(fields, resp.data[i])]
        bad == {i \in DOMAIN rs : ~rs[i].ok}
    IN  IF bad # {} THEN rs[CHOOSE i \in bad : \A j \in bad : i <= j]
        ELSE Ok([data |-> [i \in DOMAIN rs |-> rs[i].value],
                 has_more |-> resp.has_more])

\* The entity an operation decodes its response into.
EntityOf(o) ==
    CASE o = "item_create" -> "InvoiceItem"
      [] o = "list" -> "List<Invoice>"
      [] OTHER -> "Invoice"

Decode(entity, body) ==
    CASE entity = "InvoiceItem" -> DecodeStruct(InvoiceItemFields, body)
      [] entity = "List<Invoice>" -> DecodeList(InvoiceFields, body)
      [] OTHER -> DecodeStruct(InvoiceFields, body)

----------------------------------------------------------------------------
(* The response bodies the Client is given.                                *)

\* The subsets of S of at most n elements.
RECURSIVE SubsetsUpTo(_, _)
SubsetsUpTo(S, n) ==
    IF n = 0 THEN {{}}
    ELSE LET P == SubsetsUpTo(S, n - 1) IN P \cup {A \cup {k} : A \in P, k \in S}

Restrict(f, keys) == [k \in keys |-> f[k]]

\* A line item with every attribute, and "object", which no field reads.
InvoiceItemFull ==
    [k \in InvoiceItemObjectKeys \cup {"object"} |->
        IF k = "type" THEN "invoiceitem" ELSE "v_" \o k]

ListOf(items) == [data |-> items, has_more |-> "false"]

\* An invoice with every attribute; its second line lacks "type".
InvoiceFull ==
    [k \in InvoiceObjectKeys \cup {"object"} |->
        IF k = "lines"
        THEN ListOf(<<InvoiceItemFull,
                      Restrict(InvoiceItemFull, DOMAIN InvoiceItemFull \ {"type"})>>)
        ELSE "v_" \o k]

\* Every response that lacks at most MaxAbsent keys of the full one.
AllInvoiceResponses ==
    {Restrict(InvoiceFull, DOMAIN InvoiceFull \ A) :
        A \in SubsetsUpTo(DOMAIN InvoiceFull, MaxAbsent)}
AllInvoiceItemResponses ==
    {Restrict(InvoiceItemFull, DOMAIN InvoiceItemFull \ A) :
        A \in SubsetsUpTo(DOMAIN InvoiceItemFull, MaxAbsent)}

\* The few bodies the concurrent specification draws from: one that
\* decodes and one that lacks a required key.
SomeBodies(o) ==
    CASE o = "item_create" ->
            {Restrict(InvoiceItemFull, DOMAIN InvoiceItemFull \ {"type"}),
             Restrict(InvoiceItemFull, DOMAIN InvoiceItemFull \ {"amount"})}
      [] o = "list" ->
            {ListOf(<<InvoiceFull>>),
             ListOf(<<InvoiceFull, Restrict(InvoiceFull, DOMAIN InvoiceFull \ {"id"})>>)}
      [] OTHER ->
            {InvoiceFull, Restrict(InvoiceFull, DOMAIN InvoiceFull \ {"total"})}

----------------------------------------------------------------------------
(* The operations.  An invocation builds its call, hands it to the Client  *)
(* (Invoke) and returns what the Client returns (Complete).  The Client is *)
(* a collaborator: it is handed a request and, later, returns a Result,    *)
(* either its own error or the response body decoded into the entity.      *)

Callers == {"c1", "c2"}

\* What the transport may do with a request.
ClientErrors ==
    {Err("Transport", "connection reset"), Err("Api", "resource_missing")}

Outcomes(o) == ClientErrors \cup {Ok(b) : b \in SomeBodies(o)}

\* The Result the Client returns for an outcome: its error as it is, or
\* the body decoded as T (a DecodeError when it does not match).
ClientReturn(entity, outcome) ==
    IF outcome.ok THEN Decode(entity, outcome.value) ELSE outcome

\* A Client that is handed a request it already holds only once.
EmitOnce(recv, req) ==
    IF BagIn(req, recv) THEN recv ELSE recv (+) SetToBag({req})

\* client.get / client.post / client.post_empty: the request reaches the
\* Client.
Emit(recv, req) == recv (+) SetToBag({req})

\* An operation that maps the collaborator's error into one of its own.
PropagateWrapped(r) == IF r.ok THEN r ELSE Err("Other", "request failed")

\* Each operation's body is the Client call itself: its value is returned.
Propagate(r) == r

Args(id, params) == [id |-> id, params |-> params]

\* An invocation by caller c: with a call, the request is emitted and the
\* caller waits in the Client; with none (the early return of list), the
\* operation returns `early` without calling the Client.
Invoke(c, o, a, enc, call, early) ==
    /\ pc[c] = "idle"
    /\ op' = [op EXCEPT ![c] = o]
    /\ arg' = [arg EXCEPT ![c] = a]
    /\ encoded' = [encoded EXCEPT ![c] = enc]
    /\ IF call.some
       THEN /\ request' = [request EXCEPT ![c] = Some(ClientRequest(call.v))]
            /\ calls' = [calls EXCEPT ![c] = calls[c] + 1]
            /\ received' = Emit(received, ClientRequest(call.v))
            /\ pc' = [pc EXCEPT ![c] = "inflight"]
            /\ result' = result
       ELSE /\ result' = [result EXCEPT ![c] = Some(early)]
            /\ pc' = [pc EXCEPT ![c] = "done"]
            /\ UNCHANGED <<request, calls, received>>
    /\ UNCHANGED <<response, reply>>

\* Invoice::create, lines 143-145.
Create(c, params) ==
    Invoke(c, "create", Args(None, Some(params)), None,
           Some(CreateCall(params)), None)

\* Invoice::retrieve, lines 150-152.
Retrieve(c, id) ==
    Invoke(c, "retrieve", Args(Some(id), None), None, Some(RetrieveCall(id)), None)

\* Invoice::pay, lines 167-169.
Pay(c, id) ==
    Invoke(c, "pay", Args(Some(id), None), None, Some(PayCall(id)), None)

\* Invoice::update, lines 174-176.
Update(c, id, params) ==
    Invoke(c, "update", Args(Some(id), Some(params)), None,
           Some(UpdateCall(id, params)), None)

\* Invoice::list, lines 181-183: the query string is encoded first, and a
\* failure of the encoder is returned by `?`.
List(c, params, fails) ==
    LET enc == QsResult(params, fails) IN
    Invoke(c, "list", Args(None, Some(params)), Some(enc), ListCall(enc),
           IF enc.ok THEN None ELSE FromQsError(enc))

\* InvoiceItem::create, lines 190-192.
ItemCreate(c, params) ==
    Invoke(c, "item_create", Args(None, Some(params)), None,
           Some(ItemCreateCall(params)), None)

\* A Client that keeps the last response in a slot every waiting caller
\* reads.
CompleteShared(c, outcome) ==
    /\ pc[c] = "inflight"
    /\ response' = [response EXCEPT ![c] = Some(outcome)]
    /\ reply' = [reply EXCEPT ![c] = Some(ClientReturn(EntityOf(op[c]), outcome))]
    /\ result' = [d \in Callers |->
                    IF pc[d] = "inflight"
                    THEN Some(Propagate(ClientReturn(EntityOf(op[c]), outcome)))
                    ELSE result[d]]
    /\ pc' = [pc EXCEPT ![c] = "done"]
    /\ UNCHANGED <<op, arg, encoded, request, calls, received>>

\* The Client call of caller c returns, and the operation returns its value.
Complete(c, outcome) ==
    /\ pc[c] = "inflight"
    /\ response' = [response EXCEPT ![c] = Some(outcome)]
    /\ reply' = [reply EXCEPT ![c] = Some(ClientReturn(EntityOf(op[c]), outcome))]
    /\ result' = [result EXCEPT ![c] =
                    Some(Propagate(ClientReturn(EntityOf(op[c]), outcome)))]
    /\ pc' = [pc EXCEPT ![c] = "done"]
    /\ UNCHANGED <<op, arg, encoded, request, calls, received>>

Init ==
    /\ pc = [c \in Callers |-> "idle"]
    /\ op = [c \in Callers |-> "none"]
    /\ arg = [c \in Callers |-> Args(None, None)]
    /\ encoded = [c \in Callers |-> None]
    /\ request = [c \in Callers |-> None]
    /\ response = [c \in Callers |-> None]
    /\ reply = [c \in Callers |-> None]
    /\ result = [c \in Callers |-> None]
    /\ calls = [c \in Callers |-> 0]
    /\ received = EmptyBag

\* Several callers, each invoking any operation, in any interleaving.
Next ==
    \E c \in Callers :
        \/ \E p \in SomeInvoiceParams : Create(c, p)
        \/ \E id \in SomeIds : Retrieve(c, id)
        \/ \E id \in SomeIds : Pay(c, id)
        \/ \E id \in SomeIds, p \in SomeInvoiceParams : Update(c, id, p)
        \/ \E p \in SomeListParams, fails \in BOOLEAN : List(c, p, fails)
        \/ \E p \in SomeInvoiceItemParams : ItemCreate(c, p)
        \/ \E out \in Outcomes(op[c]) : Complete(c, out)

Spec == Init /\ [][Next]_vars

\* One caller, the operations with a params body, every subset of fields.
NextSerialize ==
    \/ \E p \in AllInvoiceParams : Create("c1", p)
    \/ \E id \in Ids, p \in AllInvoiceParams : Update("c1", id, p)
    \/ \E p \in AllInvoiceItemParams : ItemCreate("c1", p)

SpecSerialize == Init /\ [][NextSerialize]_vars

\* One caller, Invoice::list with every limit and customer.
NextList ==
    \/ \E p \in AllListParams, fails \in BOOLEAN : List("c1", p, fails)
    \/ \E out \in Outcomes(op["c1"]) : Complete("c1", out)

SpecList == Init /\ [][NextList]_vars

\* One caller, an Invoice and an InvoiceItem operation, every response body.
NextDecode ==
    \/ Retrieve("c1", In123)
    \/ \E p \in SomeInvoiceItemParams : ItemCreate("c1", p)
    \/ /\ op["c1"] = "retrieve"
       /\ \E b \in AllInvoiceResponses : Complete("c1", Ok(b))
    \/ /\ op["c1"] = "item_create"
       /\ \E b \in AllInvoiceItemResponses : Complete("c1", Ok(b))

SpecDecode == Init /\ [][NextDecode]_vars

\* Several callers, the four operations on /invoices paths, every id.
NextDistinct ==
    \E c \in Callers :
        \/ \E id \in Ids : Retrieve(c, id)
        \/ \E id \in Ids : Pay(c, id)
        \/ \E id \in Ids, p \in SomeInvoiceParams : Update(c, id, p)
        \/ \E p \in AllListParams, fails \in BOOLEAN : List(c, p, fails)

SpecDistinct == Init /\ [][NextDistinct]_vars

----------------------------------------------------------------------------
(* Properties.                                                             *)

Requested(c) == request[c].some
Returned(c) == pc[c] = "done"
Cus123 == <<"c", "u", "s", "_", "1", "2", "3">>

\* C1: whenever the Client returned an error to an invocation, of any of
\* the six operations, the invocation returns that same error (same kind,
\* same message) to its caller.
C1_ErrorsPropagate ==
    \A c \in Callers :
        (Returned(c) /\ reply[c].some /\ ~reply[c].v.ok)
            => /\ result[c].some
               /\ ~result[c].v.ok
               /\ result[c].v.kind = reply[c].v.kind
               /\ result[c].v.msg = reply[c].v.msg

\* C1 witness: one caller's list returned the Client's Api error while the
\* other's pay returned the Client's decode error.
C1_Witness ==
    /\ op["c1"] = "list" /\ Returned("c1")
    /\ reply["c1"] = Some(Err("Api", "resource_missing"))
    /\ op["c2"] = "pay" /\ Returned("c2")
    /\ reply["c2"].some /\ ~reply["c2"].v.ok /\ reply["c2"].v.kind = "Decode"

\* C2: the body of create, update and InvoiceItem::create holds exactly the
\* keys of the fields that are set, each once and with its value; a field
\* that is None is absent, never written as null.
C2_BodyOmitsUnset ==
    \A c \in Callers :
        (Requested(c) /\ op[c] \in {"create", "update", "item_create"}) =>
            LET members == request[c].v.body.members
                params == arg[c].params.v
            IN  /\ {members[i].key : i \in DOMAIN members}
                       = {k \in DOMAIN params : params[k].some}
                /\ Len(members) = Cardinality({k \in DOMAIN params : params[k].some})
                /\ \A i \in DOMAIN members :
                       /\ params[members[i].key] = Some(members[i].value)
                       /\ members[i].value # "null"

\* C2 witness: an update whose params set customer and closed and leave
\* description and forgiven unset has been sent.
C2_Witness ==
    /\ op["c1"] = "update" /\ Requested("c1")
    /\ arg["c1"].params.v["customer"].some
    /\ arg["c1"].params.v["closed"].some
    /\ ~arg["c1"].params.v["description"].some
    /\ ~arg["c1"].params.v["forgiven"].some
    /\ Len(request["c1"].v.body.members) = 2

\* C3: each operation's request is the one of the wire table: create is
\* POST /invoices with the params, retrieve(id) is GET "/invoices/" + id
\* with no body, pay(id) is POST "/invoices/" + id + "/pay" with an empty
\* body, update(id, params) is POST "/invoices/" + id with the params,
\* InvoiceItem::create is POST /invoiceitems with the params.
C3_WireTable ==
    \A c \in Callers :
        Requested(c) =>
            LET r == request[c].v
                a == arg[c]
                json(fields) ==
                    [kind |-> "json", members |-> Serialize(fields, a.params.v)]
                empty == [kind |-> "empty", members |-> <<>>]
            IN  /\ op[c] = "create" =>
                       /\ r.method = "POST" /\ r.path = <<"/", "i", "n", "v", "o", "i", "c", "e", "s">>
                       /\ r.body = json(InvoiceParamsFields)
                /\ op[c] = "retrieve" =>
                       /\ r.method = "GET" /\ r.body = empty
                       /\ r.path = <<"/", "i", "n", "v", "o", "i", "c", "e", "s", "/">> \o a.id.v
                       /\ a.id.v = In123 => r.path = <<"/", "i", "n", "v", "o", "i", "c", "e", "s", "/", "i", "n", "_", "1", "2", "3">>
                /\ op[c] = "pay" =>
                       /\ r.method = "POST" /\ r.body = empty
                       /\ r.path = <<"/", "i", "n", "v", "o", "i", "c", "e", "s", "/">> \o a.id.v \o <<"/", "p", "a", "y">>
                       /\ a.id.v = In123 => r.path = <<"/", "i", "n", "v", "o", "i", "c", "e", "s", "/", "i", "n", "_", "1", "2", "3", "/", "p", "a", "y">>
                /\ op[c] = "update" =>
                       /\ r.method = "POST" /\ r.body = json(InvoiceParamsFields)
                       /\ r.path = <<"/", "i", "n", "v", "o", "i", "c", "e", "s", "/">> \o a.id.v
                /\ op[c] = "item_create" =>
                       /\ r.method = "POST" /\ r.path = <<"/", "i", "n", "v", "o", "i", "c", "e", "i", "t", "e", "m", "s">>
                       /\ r.body = json(InvoiceItemParamsFields)

\* C3 witness: retrieve("in_123") and update("in_123", ..) are both in
\* the Client.
C3_Witness ==
    /\ op["c1"] = "retrieve" /\ Requested("c1") /\ arg["c1"].id.v = In123
    /\ op["c2"] = "update" /\ Requested("c2") /\ arg["c2"].id.v = In123

\* C4: list is a GET on "/invoices?" followed by the query string: limit and
\* customer both when both are set (limit=10&customer=cus_123), the one
\* that is set when one is, and nothing when none is.
C4_ListQuery ==
    \A c \in Callers :
        (op[c] = "list" /\ Requested(c)) =>
            LET r == request[c].v
                p == arg[c].params.v
                l == IF p.limit.some
                     THEN <<"l", "i", "m", "i", "t", "=">> \o Decimal(p.limit.v) ELSE <<>>
                cu == IF p.customer.some
                      THEN <<"c", "u", "s", "t", "o", "m", "e", "r", "=">> \o PercentEncode(p.customer.v)
                      ELSE <<>>
                amp == IF p.limit.some /\ p.customer.some THEN <<"&">> ELSE <<>>
            IN  /\ r.method = "GET" /\ r.body.kind = "empty"
                /\ r.path = <<"/", "i", "n", "v", "o", "i", "c", "e", "s", "?">> \o l \o amp \o cu
                /\ (p.limit = Some(10) /\ p.customer = Some(Cus123)) =>
                       r.path = <<"/", "i", "n", "v", "o", "i", "c", "e", "s", "?", "l", "i", "m", "i", "t", "=", "1", "0", "&", "c", "u", "s", "t", "o", "m", "e", "r", "=", "c", "u", "s", "_", "1", "2", "3">>
                /\ (p.limit = Some(10) /\ p.customer = None) =>
                       r.path = <<"/", "i", "n", "v", "o", "i", "c", "e", "s", "?", "l", "i", "m", "i", "t", "=", "1", "0">>
                /\ (p.limit = None /\ p.customer = Some(Cus123)) =>
                       r.path = <<"/", "i", "n", "v", "o", "i", "c", "e", "s", "?", "c", "u", "s", "t", "o", "m", "e", "r", "=", "c", "u", "s", "_", "1", "2", "3">>
                /\ (p.limit = None /\ p.customer = None) =>
                       r.path = <<"/", "i", "n", "v", "o", "i", "c", "e", "s", "?">>

\* C4 witness: list with limit 10 and customer "cus_123" has been sent.
C4_Witness ==
    /\ op["c1"] = "list" /\ Requested("c1")
    /\ arg["c1"].params.v = ListParams(Some(10), Some(Cus123))

\* The struct field of `fields` that is meant for attribute `key`.
FieldFor(fields, key) ==
    fields[CHOOSE i \in DOMAIN fields : fields[i].name = FieldOf(key)]

\* Whether the decoded struct `value` holds every attribute of `keys` that
\* `body` carries, and None for every Option attribute that it omits.
Reproduces(fields, keys, body, value) ==
    \A k \in keys :
        LET f == FieldFor(fields, k) IN
        /\ (k \in DOMAIN body /\ f.ty = "scalar") =>
               value[f.name] = IF f.kind = "option" THEN Some(body[k]) ELSE body[k]
        /\ (k \notin DOMAIN body /\ f.kind = "option") => value[f.name] = None

\* C5: a decoded Invoice holds every attribute of the invoice object that
\* the response carries, with its value, its lines item by item, and None
\* for every optional attribute that the response omits.
C5_DecodeReproduces ==
    \A c \in Callers :
        (op[c] = "retrieve" /\ Returned(c) /\ reply[c].some /\ reply[c].v.ok) =>
            LET body == response[c].v.value
                invoice == reply[c].v.value
            IN  /\ Reproduces(InvoiceFields, InvoiceObjectKeys, body, invoice)
                /\ Len(invoice.lines.data) = Len(body["lines"].data)
                /\ \A i \in DOMAIN invoice.lines.data :
                       Reproduces(InvoiceItemFields, InvoiceItemObjectKeys,
                                  body["lines"].data[i], invoice.lines.data[i])

\* C6: an InvoiceItem response without "type" decodes, with item_type the
\* empty string; with "type" it decodes to that value; and the absence of
\* any other non-optional key makes decoding fail.
C6_ItemTypeDefault ==
    \A c \in Callers :
        (op[c] = "item_create" /\ Returned(c) /\ response[c].some
                               /\ response[c].v.ok) =>
            LET body == response[c].v.value
                r == reply[c].v
                others == {"id", "amount", "currency", "discountable",
                           "livemode", "metadata", "period", "proration"}
            IN  /\ others \subseteq DOMAIN body =>
                       /\ r.ok
                       /\ r.value.item_type =
                              IF "type" \in DOMAIN body THEN body["type"] ELSE ""
                /\ ~(others \subseteq DOMAIN body) =>
                       /\ ~r.ok
                       /\ r.kind = "Decode"
                       /\ r.msg \in others \ DOMAIN body

\* C6 witness: an InvoiceItem::create got a response without "type" (and
\* without the optional plan) and returned the item, its item_type empty.
C6_Witness ==
    /\ op["c1"] = "item_create" /\ Returned("c1")
    /\ response["c1"].some /\ response["c1"].v.ok
    /\ "type" \notin DOMAIN response["c1"].v.value
    /\ "plan" \notin DOMAIN response["c1"].v.value
    /\ result["c1"].v.ok
    /\ result["c1"].v.value.item_type = ""
    /\ result["c1"].v.value.plan = None

\* What a step of one caller leaves alone: everything of every caller that
\* does not take the step.
OthersUntouched ==
    \A d \in Callers :
        pc'[d] = pc[d] =>
            /\ op'[d] = op[d] /\ arg'[d] = arg[d] /\ encoded'[d] = encoded[d]
            /\ request'[d] = request[d] /\ response'[d] = response[d]
            /\ reply'[d] = reply[d] /\ result'[d] = result[d]
            /\ calls'[d] = calls[d]

\* Equal arguments give equal requests, and what an invocation returned is
\* what the Client returned to it.
OwnRequestOwnReply ==
    /\ \A c, d \in Callers :
           (Requested(c) /\ Requested(d) /\ op[c] = op[d] /\ arg[c] = arg[d])
               => request[c] = request[d]
    /\ \A c \in Callers :
           /\ (Returned(c) /\ Requested(c)) =>
                  /\ result[c] = reply[c]
                  /\ reply[c] = Some(ClientReturn(EntityOf(op[c]), response[c].v))
           /\ ~Returned(c) => result[c] = None

\* C7: in every interleaving, the request of an invocation depends only on
\* its own arguments, its result is the Client's reply to its own request,
\* and no step of one caller changes anything of another.
C7_Isolation == [](OwnRequestOwnReply) /\ [][OthersUntouched]_vars

\* C7 witness: two callers sent the same request; the second got its reply
\* and returned while the first is still waiting, with no result.
C7_Witness ==
    /\ pc["c1"] = "inflight" /\ pc["c2"] = "done"
    /\ op["c1"] = "pay" /\ request["c1"] = request["c2"]
    /\ result["c1"] = None /\ result["c2"].some /\ result["c2"].v.ok

\* C8: an invocation calls the Client at most once, and exactly once when
\* the Client answered it, error or not; every call reaches the Client, so
\* two pays of the same invoice are two POST requests.
C8_OneCall ==
    /\ \A c \in Callers :
           /\ calls[c] <= 1
           /\ Requested(c) <=> calls[c] = 1
           /\ (Returned(c) /\ reply[c].some) => calls[c] = 1
    /\ BagCardinality(received) = Cardinality({c \in Callers : Requested(c)})
    /\ \A c, d \in Callers :
           (c # d /\ op[c] = "pay" /\ op[d] = "pay" /\ arg[c].id = arg[d].id)
               => /\ request[c].v.method = "POST"
                  /\ CopiesIn(request[c].v, received) = 2

\* C8 witness: two pays of the same invoice, both failed and returned.
C8_Witness ==
    /\ op["c1"] = "pay" /\ op["c2"] = "pay" /\ arg["c1"].id = arg["c2"].id
    /\ Returned("c1") /\ Returned("c2")
    /\ ~result["c1"].v.ok /\ ~result["c2"].v.ok

\* C9: when the encoding of the list params fails, list returns the encode
\* error as an Error and never calls the Client; a list request exists only
\* when the encoding succeeded.
C9_EncodeErrorFirst ==
    /\ \A c \in Callers :
           op[c] = "list" =>
               /\ encoded[c].some
               /\ ~encoded[c].v.ok =>
                      /\ Returned(c)
                      /\ result[c] = Some(Err("Encode", encoded[c].v.msg))
                      /\ calls[c] = 0
                      /\ request[c] = None /\ reply[c] = None
               /\ Requested(c) => encoded[c].v.ok
    /\ (\A c \in Callers : op[c] = "list" /\ ~encoded[c].v.ok)
           => received = EmptyBag

\* C9 witness: both callers' list failed to encode and returned.
C9_Witness ==
    \A c \in Callers :
        /\ op[c] = "list" /\ Returned(c)
        /\ ~encoded[c].v.ok /\ ~result[c].v.ok

\* C10: the request of an update differs from the request of a pay in
\* method, path or body, and the request of a retrieve differs from the
\* request of a list in method or path, whatever the ids and params.
C10_DistinctRequests ==
    \A c, d \in Callers :
        (Requested(c) /\ Requested(d)) =>
            /\ (op[c] = "update" /\ op[d] = "pay") =>
                   <<request[c].v.method, request[c].v.path, request[c].v.body>>
                       # <<request[d].v.method, request[d].v.path, request[d].v.body>>
            /\ (op[c] = "retrieve" /\ op[d] = "list") =>
                   <<request[c].v.method, request[c].v.path>>
                       # <<request[d].v.method, request[d].v.path>>

\* C10 witness: update("in_123/pay", no field set) and pay("in_123") are
\* both in the Client, on the same path.
C10_Witness ==
    /\ op["c1"] = "update" /\ op["c2"] = "pay"
    /\ Requested("c1") /\ Requested("c2")
    /\ arg["c2"].id.v = In123
    /\ arg["c1"].params.v = DefaultParams(InvoiceParamsFields)
    /\ request["c1"].v.path = request["c2"].v.path

====
